---- MODULE Spec2Model ----
(***************************************************************************)
(* Model of the MongoDB -> DataStax HCD migration pipeline                 *)
(* (src/migration/mongo_to_hcd_migration.py): the batch partitioning of    *)
(* migrate_data, the thread pool that runs _process_single_batch, the      *)
(* reader read_mongodb_batch, the writer write_hcd_batch with its          *)
(* insert_many / insert_one fallback, the aggregation loop over            *)
(* as_completed, the final statistics and the exit code of main.           *)
(***************************************************************************)
EXTENDS Integers, Sequences, FiniteSets, Bags, TLC

(***************************************************************************)
(* Bounds of the model.  max_docs is 10000 in the source (line 292); the   *)
(* model runs the same code with a small document cap.                     *)
(***************************************************************************)
max_docs == 3
MaxThreads == 2
MaxPoison == 1
MaxFaults == 1
MaxBatchSize == max_docs + 1
MaxSrc == max_docs + 1
MaxVSrc == 2
MaxVTarget == 2

VARIABLES
    batch_size,        \* self.batch_size
    max_threads,       \* self.max_threads
    subscribers,       \* the source collection mongodb_db.subscribers, in store order
    hcd_collection,    \* the documents of the target collection, a bag
    mongodb_client,    \* "none", "open" or "closed"
    faults,            \* failures the environment may still inject
    mpc,               \* position of the main thread
    interrupted,       \* a KeyboardInterrupt was raised in the main thread
    batch_tasks,       \* the list of (batch_num, skip, current_batch_size)
    submitted,         \* number of tasks handed to executor.submit
    pc,                \* position of each batch task in its worker
    batch,             \* the documents the task read
    idx,               \* loop index of the insert_one fallback
    success_count,     \* success_count of write_hcd_batch
    result,            \* the (migrated_count, error_count) the task returned
    outcome,           \* which path the task took
    attempted,         \* indexes of the batch handed to insert_one, in order
    added,             \* documents the task added to the target collection
    total_migrated,
    total_errors,
    completed_batches,
    progress,          \* the last progress percentage logged, -1 before the first
    duration,          \* end_time - start_time, -1 before the summary
    exit_code,         \* return value of main, -1 while it runs
    run,               \* number of the current invocation of the script
    first_run,         \* the batches and results of the first invocation
    connect_failed,    \* "none", or the store whose connection failed
    vpc,               \* position of verify_migration.py, "off" when not run
    counts_match,      \* <<>> or <<the result of verify_counts>>
    data_matches,      \* <<>> or <<the result of verify_sample_data>>
    verify_exit        \* return value of the verifier's main, -1 while it runs

vars == <<batch_size, max_threads, subscribers, hcd_collection, mongodb_client,
          faults, mpc, interrupted, batch_tasks, submitted, pc, batch, idx,
          success_count, result, outcome, attempted, added, total_migrated,
          total_errors, completed_batches, progress, duration, exit_code, run,
          first_run,
          connect_failed, vpc, counts_match, data_matches, verify_exit>>

----------------------------------------------------------------------------
(* Documents *)

\* A document of the source collection.  hashMsisdn is a string or, the
\* store being schema-less, a value of another type; payload says whether
\* the document satisfies the target's constraints.
DocKinds == {"ok", "poison", "poison_int"}

SourceDoc(i, kind) ==
    [_id |-> i,
     hashMsisdn |-> [type |-> IF kind = "poison_int" THEN "int" ELSE "str", v |-> i],
     payload |-> IF kind = "ok" THEN "ok" ELSE "poison"]

Min(a, b) == IF a <= b THEN a ELSE b

RECURSIVE SumSeq(_)
SumSeq(s) == IF s = <<>> THEN 0 ELSE Head(s) + SumSeq(Tail(s))

\* a reader that ignores the offset
FindSkipLimitNoSkip(coll, skip, limit) == SubSeq(coll, 1, Min(Len(coll), limit))

\* cursor = subscribers.find().skip(skip).limit(limit); list(cursor)
FindSkipLimit(coll, skip, limit) ==
    SubSeq(coll, skip + 1, Min(Len(coll), skip + limit))

\* a reader that leaves the documents as they were read
StripIdKept(doc) == doc

\* for doc in batch: if '_id' in doc: del doc['_id']
StripId(doc) ==
    IF "_id" \in DOMAIN doc
    THEN [f \in DOMAIN doc \ {"_id"} |-> doc[f]]
    ELSE doc

\* read_mongodb_batch when the read succeeds
read_mongodb_batch(coll, skip, limit) ==
    LET found == FindSkipLimit(coll, skip, limit)
    IN  [k \in 1..Len(found) |-> StripId(found[k])]

----------------------------------------------------------------------------
(* The target store *)

\* The target rejects a document that violates one of its constraints, and a
\* document that carries an _id the collection already holds.  A document
\* without _id is given a fresh one by the store.
TargetRejects(coll, doc) ==
    \/ doc.payload = "poison"
    \/ /\ "_id" \in DOMAIN doc
       /\ \E d \in BagToSet(coll) : "_id" \in DOMAIN d /\ d["_id"] = doc["_id"]

InsertOne(coll, doc) == coll (+) SetToBag({doc})

RECURSIVE InsertAll(_, _)
InsertAll(coll, docs) ==
    IF docs = <<>> THEN coll
    ELSE InsertAll(InsertOne(coll, Head(docs)), Tail(docs))

Accepted(coll, docs) == SelectSeq(docs, LAMBDA d : ~TargetRejects(coll, d))

\* insert_many raises when the store rejects a document of the batch.
InsertManyFails(coll, docs) ==
    \E k \in 1..Len(docs) : TargetRejects(coll, docs[k])

\* hash_msisdn[:16] of the error handler: slicing works on a string only.
Sliceable(doc) ==
    IF "hashMsisdn" \in DOMAIN doc THEN doc.hashMsisdn.type = "str" ELSE TRUE

----------------------------------------------------------------------------
(* Partitioning, migrate_data lines 296-316 *)

\* a partitioning that rounds the number of batches down
TotalBatchesFloor(bs) == max_docs \div bs

\* total_batches = (max_docs + self.batch_size - 1) // self.batch_size
TotalBatches(bs) == (max_docs + bs - 1) \div bs

RECURSIVE BatchTasksFrom(_, _, _)
BatchTasksFrom(bs, batch_num, acc) ==
    IF batch_num > TotalBatches(bs) THEN acc
    ELSE LET skip == (batch_num - 1) * bs
             remaining_docs == max_docs - skip
         IN  IF remaining_docs <= 0 THEN acc
             ELSE BatchTasksFrom(bs, batch_num + 1,
                      Append(acc, [batch_num |-> batch_num, skip |-> skip,
                                   size |-> Min(bs, remaining_docs)]))

BatchTasks(bs) == BatchTasksFrom(bs, 1, <<>>)

Tasks == 1..Len(batch_tasks)

----------------------------------------------------------------------------
(* Initial state: the script has been started, nothing is connected *)

SourceKinds ==
    UNION { {k \in [1..n -> DocKinds] :
                Cardinality({i \in 1..n : k[i] # "ok"}) <= MaxPoison}
            : n \in 0..MaxSrc }

Sources ==
    { [i \in DOMAIN kinds |-> SourceDoc(i, kinds[i])] : kinds \in SourceKinds }

Init ==
    /\ batch_size \in 1..MaxBatchSize
    /\ max_threads \in 1..MaxThreads
    /\ subscribers \in Sources
    /\ hcd_collection = EmptyBag
    /\ mongodb_client = "none"
    /\ faults = MaxFaults
    /\ mpc = "connect_mongodb"
    /\ interrupted = FALSE
    /\ batch_tasks = <<>>
    /\ submitted = 0
    /\ pc = <<>>
    /\ batch = <<>>
    /\ idx = <<>>
    /\ success_count = <<>>
    /\ result = <<>>
    /\ outcome = <<>>
    /\ attempted = <<>>
    /\ added = <<>>
    /\ total_migrated = 0
    /\ total_errors = 0
    /\ completed_batches = 0
    /\ progress = -1
    /\ duration = -1
    /\ exit_code = -1
    /\ run = 1
    /\ first_run = <<>>
    /\ connect_failed = "none"
    /\ vpc = "off"
    /\ counts_match = <<>>
    /\ data_matches = <<>>
    /\ verify_exit = -1

verifierVars == <<vpc, counts_match, data_matches, verify_exit>>
configVars == <<batch_size, max_threads, subscribers, run, first_run, verifierVars>>
taskVars == <<pc, batch, idx, success_count, result, outcome, attempted, added>>
totalVars == <<total_migrated, total_errors, completed_batches, progress>>

----------------------------------------------------------------------------
(* main and migrate_data: the main thread *)

\* a migrate_data that reports success whatever the error count
MigrateDataReturnAlways(errors) == errors >= 0

\* return total_errors == 0
MigrateDataReturn(errors) == errors = 0

\* main: return 0 if success else 1
MainReturn(success) == IF success THEN 0 ELSE 1

\* a migrate_data that ignores the result of the connection
NextAfterConnectIgnored(ok, next) == next

\* if not self.connect_...(): return False  (lines 283-289)
NextAfterConnect(ok, next) == IF ok THEN next ELSE "done"

\* connect_mongodb, lines 63-106, and the abort of lines 283-285
ConnectMongo ==
    /\ mpc = "connect_mongodb"
    /\ \E ok \in BOOLEAN :
         /\ mpc' = NextAfterConnect(ok, "connect_hcd")
         /\ IF ok
            THEN /\ mongodb_client' = "open"
                 /\ UNCHANGED <<exit_code, connect_failed>>
            ELSE /\ mongodb_client' = "closed"
                 /\ connect_failed' = "mongodb"
                 /\ exit_code' = MainReturn(FALSE)
    /\ UNCHANGED <<configVars, taskVars, totalVars, hcd_collection, faults,
                   interrupted, batch_tasks, submitted, duration>>

\* connect_hcd, lines 108-151 (a ValueError for an incomplete configuration
\* included), and the abort of lines 287-289
ConnectHcd ==
    /\ mpc = "connect_hcd"
    /\ \E ok \in BOOLEAN :
         /\ mpc' = NextAfterConnect(ok, "partition")
         /\ IF ok
            THEN UNCHANGED <<exit_code, mongodb_client, connect_failed>>
            ELSE /\ mongodb_client' = "closed"
                 /\ connect_failed' = "hcd"
                 /\ exit_code' = MainReturn(FALSE)
    /\ UNCHANGED <<configVars, taskVars, totalVars, hcd_collection, faults,
                   interrupted, batch_tasks, submitted, duration>>

\* lines 291-316: the batch tasks and the zeroed statistics
Partition ==
    /\ mpc = "partition"
    /\ batch_tasks' = BatchTasks(batch_size)
    /\ LET n == Len(batch_tasks') IN
         /\ pc' = [i \in 1..n |-> "new"]
         /\ batch' = [i \in 1..n |-> <<>>]
         /\ idx' = [i \in 1..n |-> 0]
         /\ success_count' = [i \in 1..n |-> 0]
         /\ result' = [i \in 1..n |-> <<0, 0>>]
         /\ outcome' = [i \in 1..n |-> "none"]
         /\ attempted' = [i \in 1..n |-> <<>>]
         /\ added' = [i \in 1..n |-> 0]
    /\ total_migrated' = 0
    /\ total_errors' = 0
    /\ submitted' = 0
    /\ mpc' = "submit"
    /\ UNCHANGED <<configVars, connect_failed, hcd_collection, mongodb_client, faults,
                   interrupted, completed_batches, progress, duration, exit_code>>

\* lines 324-326: executor.submit of the next task; completed_batches = 0
\* once all are submitted
Submit ==
    /\ mpc = "submit"
    /\ submitted < Len(batch_tasks)
    /\ submitted' = submitted + 1
    /\ pc' = [pc EXCEPT ![submitted + 1] = "queued"]
    /\ IF submitted' = Len(batch_tasks)
       THEN mpc' = "collect" /\ completed_batches' = 0
       ELSE UNCHANGED <<mpc, completed_batches>>
    /\ UNCHANGED <<configVars, connect_failed, batch, idx, success_count, result, outcome,
                   attempted, added, total_migrated, total_errors, progress,
                   hcd_collection, mongodb_client, faults, interrupted,
                   batch_tasks, duration, exit_code>>

\* an aggregation that overwrites the running total
AssignCount(total, count) == count

\* total_migrated += migrated_count; total_errors += error_count
AddCount(total, count) == total + count

\* a counter update that is lost
CompletedLost(completed) == completed

\* completed_batches += 1, line 336
CompletedNext(completed) == completed + 1

\* a progress computed over the documents instead of the batches
ProgressOverDocs(completed, total) == (completed * 100) \div max_docs

\* progress = (completed_batches / len(batch_tasks)) * 100, line 339, as a
\* whole percentage
Progress(completed, total) == (completed * 100) \div total

\* lines 330-340: one iteration of the loop over as_completed
Collect(i) ==
    /\ mpc = "collect"
    /\ pc[i] = "done"
    /\ total_migrated' = AddCount(total_migrated, result[i][1])
    /\ total_errors' = AddCount(total_errors, result[i][2])
    /\ completed_batches' = CompletedNext(completed_batches)
    /\ progress' = Progress(completed_batches', Len(batch_tasks))
    /\ pc' = [pc EXCEPT ![i] = "aggregated"]
    /\ UNCHANGED <<configVars, connect_failed, batch, idx, success_count, result, outcome,
                   attempted, added, hcd_collection, mongodb_client, faults,
                   mpc, interrupted, batch_tasks, submitted, duration, exit_code>>

\* a loop that is left as soon as one future has been handled
AnyCollected == \E i \in Tasks : pc[i] = "aggregated"

\* the loop over as_completed ends when every submitted future was yielded
AllCollected == \A i \in Tasks : pc[i] = "aggregated"

\* lines 346-364 and main lines 385-401: the final statistics, the return
\* value and the exit code.  total_migrated/duration raises
\* ZeroDivisionError when the clock did not advance; main turns it into 1.
Summary ==
    /\ mpc = "collect"
    /\ AllCollected
    /\ \E d \in {0, 1} :
         /\ duration' = d
         /\ exit_code' = IF d = 0 THEN 1
                         ELSE MainReturn(MigrateDataReturn(total_errors))
    /\ mpc' = "done"
    /\ mongodb_client' = "closed"
    /\ UNCHANGED <<configVars, connect_failed, taskVars, totalVars, hcd_collection, faults,
                   interrupted, batch_tasks, submitted>>

\* KeyboardInterrupt in the main thread.  Outside the with block it reaches
\* main at once; inside it the executor's __exit__ first waits for every
\* submitted task (shutdown(wait=True)).
Interrupt ==
    /\ mpc \in {"connect_mongodb", "connect_hcd", "partition", "submit", "collect"}
    /\ interrupted' = TRUE
    /\ IF mpc \in {"submit", "collect"}
       THEN /\ mpc' = "shutdown"
            /\ UNCHANGED <<exit_code, mongodb_client>>
       ELSE /\ mpc' = "done"
            /\ exit_code' = 1
            /\ mongodb_client' = IF mongodb_client = "open" THEN "closed"
                                 ELSE mongodb_client
    /\ UNCHANGED <<configVars, connect_failed, taskVars, totalVars, hcd_collection, faults,
                   batch_tasks, submitted, duration>>

\* the with block is left once no submitted task is pending; main returns 1
Shutdown ==
    /\ mpc = "shutdown"
    /\ \A i \in Tasks : pc[i] \in {"new", "done", "aggregated"}
    /\ mpc' = "done"
    /\ exit_code' = 1
    /\ mongodb_client' = "closed"
    /\ UNCHANGED <<configVars, connect_failed, taskVars, totalVars, hcd_collection, faults,
                   interrupted, batch_tasks, submitted, duration>>

----------------------------------------------------------------------------
(* _process_single_batch, read_mongodb_batch, write_hcd_batch: the workers *)

\* tasks a pool thread is executing
Active == {i \in Tasks : pc[i] \in {"bulk", "fallback"}}

\* the collection handle the writer of a task calls insert_many and
\* insert_one on: the attribute self.hcd_collection of the one migrator
\* object whose bound method every work item is (lines 203, 220, 325)
WriterHandle(i) == "self.hcd_collection"

\* a worker that counts the whole batch as errors
ProcessResultErrorsAll(n, migrated_count) == <<migrated_count, n>>

\* lines 266-269: migrated_count, len(batch) - migrated_count
ProcessResult(n, migrated_count) == <<migrated_count, n - migrated_count>>

\* lines 271-274: return 0, current_batch_size
ExceptResult(current_batch_size) == <<0, current_batch_size>>

\* a skipped batch counted as failed with its full size
SkipResultFullSize(current_batch_size) == <<0, current_batch_size>>

\* lines 260-263: return 0, 0
SkipResult(current_batch_size) == <<0, 0>>

\* a worker that hands every batch to the writer
SkipsWriteNever(b) == FALSE

\* if not batch, line 260
SkipsWrite(b) == b = <<>>

\* a pool that is given one thread per task
PoolWorkersPerTask(threads, ntasks) == ntasks

\* ThreadPoolExecutor(max_workers=self.max_threads), line 321
PoolWorkers(threads, ntasks) == threads

\* seconds a pool thread waits between two work items: a worker of the
\* ThreadPoolExecutor takes the next queued item at once, and neither
\* migrate_data nor _process_single_batch sleeps (lines 239-274, 321-326)
inter_batch_delay == 0

\* a free pool thread takes the oldest queued work item
CanStart(i) ==
    /\ mpc \in {"submit", "collect", "shutdown"}
    /\ pc[i] = "queued"
    /\ \A j \in Tasks : j < i => pc[j] # "queued"
    /\ Cardinality(Active) < PoolWorkers(max_threads, Len(batch_tasks))

\* an exception outside the reader and the writer reaches the handler of
\* _process_single_batch, lines 271-274
WorkerRaise(i) ==
    /\ CanStart(i)
    /\ faults > 0
    /\ faults' = faults - 1
    /\ result' = [result EXCEPT ![i] = ExceptResult(batch_tasks[i].size)]
    /\ outcome' = [outcome EXCEPT ![i] = "raised"]
    /\ pc' = [pc EXCEPT ![i] = "done"]
    /\ UNCHANGED <<configVars, connect_failed, batch, idx, success_count, attempted, added,
                   totalVars, hcd_collection, mongodb_client, mpc, interrupted,
                   batch_tasks, submitted, duration, exit_code>>

\* lines 252-263 with the reader's normal path, lines 165-177
ReadBatch(i) ==
    /\ CanStart(i)
    /\ LET b == read_mongodb_batch(subscribers, batch_tasks[i].skip,
                                   batch_tasks[i].size)
       IN  /\ batch' = [batch EXCEPT ![i] = b]
           /\ IF SkipsWrite(b)
              THEN /\ result' = [result EXCEPT ![i] = SkipResult(batch_tasks[i].size)]
                   /\ outcome' = [outcome EXCEPT ![i] = "empty"]
                   /\ pc' = [pc EXCEPT ![i] = "done"]
              ELSE /\ pc' = [pc EXCEPT ![i] = "bulk"]
                   /\ UNCHANGED <<result, outcome>>
    /\ UNCHANGED <<configVars, connect_failed, idx, success_count, attempted, added, totalVars,
                   hcd_collection, mongodb_client, faults, mpc, interrupted,
                   batch_tasks, submitted, duration, exit_code>>

\* lines 252-263 when the read raises: the reader returns [] (lines 179-181)
\* and the worker skips the batch
ReadFail(i) ==
    /\ CanStart(i)
    /\ faults > 0
    /\ faults' = faults - 1
    /\ batch' = [batch EXCEPT ![i] = <<>>]
    /\ result' = [result EXCEPT ![i] = SkipResult(batch_tasks[i].size)]
    /\ outcome' = [outcome EXCEPT ![i] = "read_failed"]
    /\ pc' = [pc EXCEPT ![i] = "done"]
    /\ UNCHANGED <<configVars, connect_failed, idx, success_count, attempted, added, totalVars,
                   hcd_collection, mongodb_client, mpc, interrupted,
                   batch_tasks, submitted, duration, exit_code>>

\* lines 202-217: insert_many of the whole batch.  When it raises, the store
\* has kept nothing of the batch or the documents it accepted.
InsertMany(i) ==
    /\ pc[i] = "bulk"
    /\ IF ~InsertManyFails(hcd_collection, batch[i])
       THEN /\ hcd_collection' = InsertAll(hcd_collection, batch[i])
            /\ success_count' = [success_count EXCEPT ![i] = Len(batch[i])]
            /\ added' = [added EXCEPT ![i] = Len(batch[i])]
            /\ result' = [result EXCEPT
                            ![i] = ProcessResult(Len(batch[i]), Len(batch[i]))]
            /\ outcome' = [outcome EXCEPT ![i] = "bulk_ok"]
            /\ pc' = [pc EXCEPT ![i] = "done"]
            /\ UNCHANGED idx
       ELSE /\ \E kept \in {<<>>, Accepted(hcd_collection, batch[i])} :
                 /\ hcd_collection' = InsertAll(hcd_collection, kept)
                 /\ added' = [added EXCEPT ![i] = Len(kept)]
            /\ success_count' = [success_count EXCEPT ![i] = 0]
            /\ idx' = [idx EXCEPT ![i] = 1]
            /\ outcome' = [outcome EXCEPT ![i] = "fallback"]
            /\ pc' = [pc EXCEPT ![i] = "fallback"]
            /\ UNCHANGED result
    /\ UNCHANGED <<configVars, connect_failed, batch, attempted, totalVars, mongodb_client,
                   faults, mpc, interrupted, batch_tasks, submitted, duration,
                   exit_code>>

\* lines 218-237: one iteration of the fallback loop, and the return after
\* the last one.  The handler of a failed insert_one slices hashMsisdn; when
\* that raises, the outer handler returns 0.
InsertOneStep(i) ==
    /\ pc[i] = "fallback"
    /\ LET doc == batch[i][idx[i]]
           n == Len(batch[i])
           ok == ~TargetRejects(hcd_collection, doc)
           count == IF ok THEN success_count[i] + 1 ELSE success_count[i]
       IN  /\ attempted' = [attempted EXCEPT ![i] = Append(@, idx[i])]
           /\ IF ok
              THEN /\ hcd_collection' = InsertOne(hcd_collection, doc)
                   /\ added' = [added EXCEPT ![i] = @ + 1]
              ELSE UNCHANGED <<hcd_collection, added>>
           /\ IF ~ok /\ ~Sliceable(doc)
              THEN /\ result' = [result EXCEPT ![i] = ProcessResult(n, 0)]
                   /\ outcome' = [outcome EXCEPT ![i] = "write_failed"]
                   /\ pc' = [pc EXCEPT ![i] = "done"]
                   /\ UNCHANGED <<success_count, idx>>
              ELSE /\ success_count' = [success_count EXCEPT ![i] = count]
                   /\ IF idx[i] = n
                      THEN /\ result' = [result EXCEPT
                                           ![i] = ProcessResult(n, count)]
                           /\ pc' = [pc EXCEPT ![i] = "done"]
                           /\ UNCHANGED idx
                      ELSE /\ idx' = [idx EXCEPT ![i] = @ + 1]
                           /\ UNCHANGED <<result, pc>>
                   /\ UNCHANGED outcome
    /\ UNCHANGED <<configVars, connect_failed, batch, totalVars, mongodb_client, faults, mpc,
                   interrupted, batch_tasks, submitted, duration, exit_code>>

----------------------------------------------------------------------------
(* Specifications *)

Next ==
    \/ ConnectMongo
    \/ ConnectHcd
    \/ Partition
    \/ Submit
    \/ \E i \in Tasks : Collect(i)
    \/ Summary
    \/ Interrupt
    \/ Shutdown
    \/ \E i \in Tasks : WorkerRaise(i)
    \/ \E i \in Tasks : ReadBatch(i)
    \/ \E i \in Tasks : ReadFail(i)
    \/ \E i \in Tasks : InsertMany(i)
    \/ \E i \in Tasks : InsertOneStep(i)

Spec == Init /\ [][Next]_vars

\* The operator starts the script again against the same stores.
Rerun ==
    /\ mpc = "done"
    /\ run = 1
    /\ run' = run + 1
    /\ first_run' = [i \in Tasks |->
                        [batch |-> batch[i], migrated_count |-> result[i][1],
                         outcome |-> outcome[i]]]
    /\ mongodb_client' = "none"
    /\ faults' = MaxFaults
    /\ mpc' = "connect_mongodb"
    /\ interrupted' = FALSE
    /\ batch_tasks' = <<>>
    /\ submitted' = 0
    /\ pc' = <<>>
    /\ batch' = <<>>
    /\ idx' = <<>>
    /\ success_count' = <<>>
    /\ result' = <<>>
    /\ outcome' = <<>>
    /\ attempted' = <<>>
    /\ added' = <<>>
    /\ total_migrated' = 0
    /\ total_errors' = 0
    /\ completed_batches' = 0
    /\ progress' = -1
    /\ duration' = -1
    /\ exit_code' = -1
    /\ connect_failed' = "none"
    /\ UNCHANGED <<batch_size, max_threads, subscribers, hcd_collection,
                   verifierVars>>

\* the next statement of the main thread when no KeyboardInterrupt comes
MainStep ==
    \/ ConnectMongo
    \/ ConnectHcd
    \/ Partition
    \/ Submit
    \/ \E i \in Tasks : Collect(i)
    \/ Summary

\* the next step of a pool thread on the batch it has taken or can take
WorkerStep(i) ==
    \/ WorkerRaise(i)
    \/ ReadBatch(i)
    \/ ReadFail(i)
    \/ InsertMany(i)
    \/ InsertOneStep(i)

\* The threads of the process are scheduled fairly: the main thread goes on
\* with its next statement, and the pool goes on with a batch it can take or
\* continue.
Fairness ==
    /\ WF_vars(MainStep)
    /\ WF_vars(\E i \in Tasks : WorkerStep(i))

\* a run the operator does not interrupt
NextUninterrupted == MainStep \/ \E i \in Tasks : WorkerStep(i)

SpecFair == Init /\ [][NextUninterrupted]_vars /\ Fairness

NextRerun == Next \/ Rerun

SpecRerun == Init /\ [][NextRerun]_vars

----------------------------------------------------------------------------
(* verify_migration.py: the verifier *)

\* key_fields = ['provider', 'subscriptionType', 'status', 'circleID']
key_fields == <<"provider", "subscriptionType", "status", "circleID">>

KeyFieldSet == {key_fields[k] : k \in 1..Len(key_fields)}

VBase == [provider |-> "VF", subscriptionType |-> "Prepaid",
          status |-> "A", circleID |-> "C1"]
VOther == [provider |-> "JIO", subscriptionType |-> "Postpaid",
           status |-> "I", circleID |-> "C2"]

VHashes == {[type |-> "str", v |-> 1], [type |-> "str", v |-> 2],
            [type |-> "int", v |-> 1]}

\* a subscriber document of the target: the key fields of differ are not
\* those of the source document with the same hashMsisdn
VTargetDoc(h, differ) ==
    [f \in {"hashMsisdn"} \cup KeyFieldSet |->
        IF f = "hashMsisdn" THEN h
        ELSE IF f \in differ THEN VOther[f] ELSE VBase[f]]

\* a subscriber document of the source
VSourceDoc(i, h) ==
    [f \in {"_id", "hashMsisdn"} \cup KeyFieldSet |->
        IF f = "_id" THEN i ELSE IF f = "hashMsisdn" THEN h ELSE VBase[f]]

VSources ==
    UNION { {[i \in 1..n |-> VSourceDoc(i, hs[i])] : hs \in [1..n -> VHashes]}
            : n \in 0..MaxVSrc }

VTargetDocs ==
    {VTargetDoc(h, differ) :
        h \in VHashes, differ \in {{}} \cup {{f} : f \in KeyFieldSet}}

VTargets ==
    UNION { {InsertAll(EmptyBag, docs) : docs \in [1..n -> VTargetDocs]}
            : n \in 0..MaxVTarget }

InitVerify ==
    /\ batch_size = 1
    /\ max_threads = 1
    /\ subscribers \in VSources
    /\ hcd_collection \in VTargets
    /\ mongodb_client = "none"
    /\ faults = 0
    /\ mpc = "off"
    /\ interrupted = FALSE
    /\ batch_tasks = <<>>
    /\ submitted = 0
    /\ pc = <<>>
    /\ batch = <<>>
    /\ idx = <<>>
    /\ success_count = <<>>
    /\ result = <<>>
    /\ outcome = <<>>
    /\ attempted = <<>>
    /\ added = <<>>
    /\ total_migrated = 0
    /\ total_errors = 0
    /\ completed_batches = 0
    /\ progress = -1
    /\ duration = -1
    /\ exit_code = -1
    /\ run = 1
    /\ first_run = <<>>
    /\ connect_failed = "none"
    /\ vpc = "connect_mongodb"
    /\ counts_match = <<>>
    /\ data_matches = <<>>
    /\ verify_exit = -1

migrationVars ==
    <<batch_size, max_threads, faults, mpc, interrupted, batch_tasks, submitted,
      taskVars, totalVars, duration, exit_code, run, first_run>>

\* connect_mongodb, lines 40-56; on failure verify_migration returns False
\* (lines 153-154) and main returns 1 (lines 185-191)
VConnectMongo ==
    /\ vpc = "connect_mongodb"
    /\ \E ok \in BOOLEAN :
         IF ok
         THEN /\ mongodb_client' = "open"
              /\ vpc' = "connect_hcd"
              /\ UNCHANGED <<verify_exit, connect_failed>>
         ELSE /\ mongodb_client' = "closed"
              /\ connect_failed' = "mongodb"
              /\ vpc' = "done"
              /\ verify_exit' = 1
    /\ UNCHANGED <<migrationVars, subscribers, hcd_collection, counts_match,
                   data_matches>>

\* connect_hcd, lines 58-80
VConnectHcd ==
    /\ vpc = "connect_hcd"
    /\ \E ok \in BOOLEAN :
         IF ok
         THEN /\ vpc' = "verify_counts"
              /\ UNCHANGED <<verify_exit, connect_failed, mongodb_client>>
         ELSE /\ mongodb_client' = "closed"
              /\ connect_failed' = "hcd"
              /\ vpc' = "done"
              /\ verify_exit' = 1
    /\ UNCHANGED <<migrationVars, subscribers, hcd_collection, counts_match,
                   data_matches>>

\* a count check that accepts a target holding more than the source
CountsMatchAtLeast(mongo_count, hcd_count) == mongo_count <= hcd_count

\* if mongo_count == hcd_count, line 91
CountsMatch(mongo_count, hcd_count) == mongo_count = hcd_count

\* verify_counts, lines 82-100
VerifyCounts ==
    /\ vpc = "verify_counts"
    /\ counts_match' = <<CountsMatch(Len(subscribers),
                                     BagCardinality(hcd_collection))>>
    /\ vpc' = "verify_sample"
    /\ UNCHANGED <<migrationVars, subscribers, hcd_collection, mongodb_client,
                   connect_failed, data_matches, verify_exit>>

\* doc.get(field)
Get(doc, f) == IF f \in DOMAIN doc THEN doc[f] ELSE "None"

\* lines 126-132: the number of key fields equal on both sides
Matches(mongo_sample, hcd_sample) ==
    Cardinality({k \in 1..Len(key_fields) :
                    Get(mongo_sample, key_fields[k]) = Get(hcd_sample, key_fields[k])})

\* a comparison satisfied by one equal field
AnyMatch(matches) == matches >= 1

\* if matches == len(key_fields), line 134
AllMatch(matches) == matches = Len(key_fields)

\* lines 119-139; mongo_hash[:16] of the success message (line 135) raises
\* for a hash that is no string, and the handler of lines 144-146 returns
\* False
SampleResult(mongo_sample, hcd_sample) ==
    IF AllMatch(Matches(mongo_sample, hcd_sample))
    THEN Sliceable(mongo_sample)
    ELSE FALSE

\* the documents find_one({"hashMsisdn": mongo_hash}) may return, line 117
FindByHash(coll, mongo_hash) ==
    {d \in BagToSet(coll) : Get(d, "hashMsisdn") = mongo_hash}

\* a lookup that takes the document out of the collection
AfterFindOneAndDelete(coll, doc) == coll (-) SetToBag({doc})

\* the target collection after find_one, line 117
AfterFindOne(coll, doc) == coll

\* a verdict that one passed check is enough for
EitherCheck(counts, data) == counts \/ data

\* if counts_match and data_matches, line 163
BothChecks(counts, data) == counts /\ data

\* verify_sample_data, lines 102-146, then the verdict of lines 162-170 and
\* main's return 0 if success else 1
VerifySample ==
    /\ vpc = "verify_sample"
    /\ \E dm \in BOOLEAN :
         /\ IF subscribers = <<>>
            THEN dm = TRUE /\ UNCHANGED hcd_collection
            ELSE LET mongo_sample == StripId(subscribers[1])
                     found == FindByHash(hcd_collection,
                                         Get(subscribers[1], "hashMsisdn"))
                 IN  IF found = {}
                     THEN dm = FALSE /\ UNCHANGED hcd_collection
                     ELSE \E hcd_sample \in found :
                            /\ dm = SampleResult(mongo_sample, StripId(hcd_sample))
                            /\ hcd_collection' = AfterFindOne(hcd_collection, hcd_sample)
         /\ data_matches' = <<dm>>
         /\ verify_exit' = IF BothChecks(counts_match[1], dm) THEN 0 ELSE 1
    /\ vpc' = "done"
    /\ mongodb_client' = "closed"
    /\ UNCHANGED <<migrationVars, subscribers, connect_failed, counts_match>>

NextVerify ==
    \/ VConnectMongo
    \/ VConnectHcd
    \/ VerifyCounts
    \/ VerifySample

SpecVerify == InitVerify /\ [][NextVerify]_vars

----------------------------------------------------------------------------
(* Properties *)

\* the tasks exist: migrate_data is past the partitioning loop
Partitioned == mpc \in {"submit", "collect", "shutdown"}

\* the task's worker has returned its result
Finished(i) == pc[i] \in {"done", "aggregated"}

\* the with block was left normally and the final statistics were reached
RunCompleted == mpc = "done" /\ duration > 0

\* number of source documents inside the requested range [0, max_docs)
Requested == Min(max_docs, Len(subscribers))

TaskSizes == [k \in Tasks |-> batch_tasks[k].size]

\* C1: for every positive batch_size the batch tasks are numbered 1, 2, ...,
\* their skips are 0, batch_size, 2*batch_size, ..., every size is batch_size
\* except the last, which is max_docs - skip, and the sizes sum to max_docs.
C1_PartitionCoversRange ==
    Partitioned =>
        /\ Len(batch_tasks) >= 1
        /\ \A k \in Tasks :
             /\ batch_tasks[k].batch_num = k
             /\ batch_tasks[k].skip = (k - 1) * batch_size
             /\ k < Len(batch_tasks) => batch_tasks[k].size = batch_size
             /\ k = Len(batch_tasks) =>
                    /\ batch_tasks[k].size = max_docs - batch_tasks[k].skip
                    /\ batch_tasks[k].size >= 1
                    /\ batch_tasks[k].size <= batch_size
        /\ SumSeq(TaskSizes) = max_docs

\* C1 witness: a partition of several batches whose last batch is truncated
C1_Witness ==
    /\ Partitioned
    /\ Len(batch_tasks) >= 2
    /\ batch_tasks[Len(batch_tasks)].size < batch_size

\* C2: after a completed run, total_migrated + total_errors equals the
\* number of documents requested.  Stated for a source that holds at least
\* max_docs documents, where the requested range is full.
C2_TotalsCoverRequested ==
    (RunCompleted /\ Len(subscribers) >= max_docs) =>
        total_migrated + total_errors = max_docs

\* C3: every completed batch returns migrated_count + error_count equal to
\* the size the scheduler assigned to it.  Stated for a source that holds a
\* document at every offset of the batch.
C3_ResultCoversBatchSize ==
    \A i \in Tasks :
        (Finished(i) /\ Len(subscribers) >= max_docs) =>
            result[i][1] + result[i][2] = batch_tasks[i].size

\* documents of the requested range that the target does not hold
Unwritten ==
    {k \in 1..Requested : ~BagIn(StripId(subscribers[k]), hcd_collection)}

\* C4: after a completed run every requested document that was not written
\* to the target is counted in total_errors.
C4_NoSilentDrop ==
    RunCompleted => Cardinality(Unwritten) <= total_errors

\* the writer of task i took the fallback path and has returned
FallbackReturned(i) ==
    Finished(i) /\ outcome[i] \in {"fallback", "write_failed"}

PoisonIn(docs) == {k \in 1..Len(docs) : docs[k].payload = "poison"}

\* C5: when insert_many fails and exactly one document of the batch is
\* poison, write_hcd_batch reports len(batch) - 1.
C5_OnePoisonCostsOne ==
    \A i \in Tasks :
        (FallbackReturned(i) /\ Cardinality(PoisonIn(batch[i])) = 1) =>
            result[i][1] = Len(batch[i]) - 1

\* C6: in the fallback path every document of the batch is handed to
\* insert_one exactly once, in batch order, and the returned migrated_count
\* is the number of insert_one calls that succeeded.
C6_FallbackAttemptsAll ==
    \A i \in Tasks :
        FallbackReturned(i) =>
            /\ attempted[i] = [k \in 1..Len(batch[i]) |-> k]
            /\ result[i][1] =
                 Cardinality({k \in 1..Len(attempted[i]) :
                                batch[i][attempted[i][k]].payload = "ok"})

\* C7: the writer run a second time on the batch it wrote completely the
\* first time reports migrated_count 0.
C7_SecondWriteAllDuplicates ==
    run = 2 =>
        \A i \in Tasks :
            ( /\ Finished(i)
              /\ outcome[i] \in {"bulk_ok", "fallback", "write_failed"}
              /\ i \in DOMAIN first_run
              /\ first_run[i].batch = batch[i]
              /\ first_run[i].migrated_count = Len(batch[i]) ) =>
                result[i][1] = 0

Aggregated == {i \in Tasks : pc[i] = "aggregated"}

RECURSIVE SumOver(_, _)
SumOver(S, k) ==
    IF S = {} THEN 0
    ELSE LET i == CHOOSE j \in S : TRUE
         IN  result[i][k] + SumOver(S \ {i}, k)

\* C8: whatever the order in which the batches complete, the running totals
\* are the sums of the results aggregated so far, and the final totals are
\* the sums over all batches.
C8_AggregationOrderIndependent ==
    /\ (mpc = "collect" \/ RunCompleted) =>
          /\ total_migrated = SumOver(Aggregated, 1)
          /\ total_errors = SumOver(Aggregated, 2)
    /\ RunCompleted => Aggregated = Tasks

\* C8 witness: a later batch is aggregated before an earlier one
C8_Witness ==
    /\ mpc = "collect"
    /\ \E i, j \in Tasks :
          /\ i < j
          /\ pc[j] = "aggregated"
          /\ pc[i] # "aggregated"
          /\ result[j][1] > 0
          /\ total_errors > 0

\* C9: an exception raised while a worker processes a batch is caught and
\* the batch contributes (0, its full size).
C9_ExceptionCountsFullBatch ==
    \A i \in Tasks :
        (Finished(i) /\ outcome[i] \in {"raised", "read_failed"}) =>
            result[i] = <<0, batch_tasks[i].size>>

\* C10: main returns 0 exactly when the run completed without interruption
\* or exception and with total_errors = 0, and 1 in every other case; it
\* has no exit code before it returns.
C10_ExitCode ==
    IF mpc = "done"
    THEN exit_code = IF ~interrupted /\ duration > 0 /\ total_errors = 0
                     THEN 0 ELSE 1
    ELSE exit_code = -1

\* C10 witness: a run that exits with 0
C10_Witness == mpc = "done" /\ exit_code = 0 /\ total_migrated > 0

\* C11: when the source or the target connection cannot be established the
\* run is aborted before any batch is partitioned, read or written, no
\* summary is produced and main returns 1.
C11_ConnectFailureAborts ==
    connect_failed # "none" =>
        /\ mpc = "done"
        /\ exit_code = 1
        /\ batch_tasks = <<>>
        /\ submitted = 0
        /\ pc = <<>>
        /\ batch = <<>>
        /\ hcd_collection = EmptyBag
        /\ total_migrated = 0
        /\ total_errors = 0
        /\ duration = -1

\* C11 witness: the source connected and the target connection failed
C11_Witness ==
    connect_failed = "hcd" /\ mongodb_client = "closed" /\ exit_code = 1

\* C12: once the operator has interrupted the run, no batch that is still
\* queued is started.
C12_NoStartAfterInterrupt ==
    [][interrupted => \A i \in Tasks : pc[i] = "queued" => pc'[i] = "queued"]_vars

\* C13: at most max_threads batches are being processed at any time.
C13_BoundedConcurrency == Cardinality(Active) <= max_threads

\* C13 witness: the pool is full and a submitted batch waits for a thread
C13_Witness ==
    /\ max_threads = 2
    /\ Cardinality(Active) = 2
    /\ \E i \in Tasks : pc[i] = "queued"

\* C14: a run whose measured duration is zero still returns its normal
\* result, 0 when there were no errors and 1 otherwise.
C14_ZeroDurationGuard ==
    (mpc = "done" /\ duration = 0) =>
        exit_code = MainReturn(MigrateDataReturn(total_errors))

\* C15: no document handed to insert_many or insert_one, and no document
\* the target holds, carries the source's _id field.
C15_NoSourceIdInTarget ==
    /\ \A i \in Tasks : \A k \in 1..Len(batch[i]) :
          "_id" \notin DOMAIN batch[i][k]
    /\ \A d \in BagToSet(hcd_collection) : "_id" \notin DOMAIN d

\* C15 witness: documents that carry _id in the source were written
C15_Witness ==
    /\ BagCardinality(hcd_collection) >= 2
    /\ \A k \in 1..Len(subscribers) : "_id" \in DOMAIN subscribers[k]
    /\ \E i \in Tasks : pc[i] = "fallback" /\ attempted[i] # <<>>

\* the first source document and the target documents carrying its hashMsisdn
SampleChecked == data_matches # <<>> /\ subscribers # <<>>
SameHash == {d \in BagToSet(hcd_collection) :
                d.hashMsisdn = subscribers[1].hashMsisdn}
Agreeing == {d \in SameHash : \A f \in KeyFieldSet : d[f] = subscribers[1][f]}

C18_Verdict ==
    vpc = "done" =>
        IF connect_failed # "none"
        THEN /\ counts_match = <<>>
             /\ data_matches = <<>>
             /\ verify_exit = 1
        ELSE /\ counts_match # <<>>
             /\ data_matches # <<>>
             /\ verify_exit \in {0, 1}
             /\ verify_exit = 0 <=>
                    (counts_match[1] = TRUE /\ data_matches[1] = TRUE)

C18_Witness ==
    /\ vpc = "done"
    /\ counts_match = <<FALSE>>
    /\ data_matches = <<TRUE>>
    /\ verify_exit = 1

\* C19: no step of the verifier changes the documents of the source store or
\* of the target store.
C19_Observational ==
    [][subscribers' = subscribers /\ hcd_collection' = hcd_collection]_vars

C19_Witness ==
    /\ vpc = "done"
    /\ counts_match = <<FALSE>>
    /\ data_matches = <<FALSE>>
    /\ SameHash # {}

MigratedCounts == [k \in Tasks |-> result[k][1]]
ErrorCounts == [k \in Tasks |-> result[k][2]]

\* C20: no update of the run counters is lost: while batches complete,
\* completed_batches counts the aggregated batches, and after a completed
\* run the three counters are the sums over all per-batch results.
C20_NoLostUpdate ==
    /\ mpc = "collect" => completed_batches = Cardinality(Aggregated)
    /\ RunCompleted =>
          /\ total_migrated = SumSeq(MigratedCounts)
          /\ total_errors = SumSeq(ErrorCounts)
          /\ completed_batches = Len(batch_tasks)

\* C20 witness: two workers have completed and both results wait for the
\* aggregation
C20_Witness ==
    /\ mpc = "collect"
    /\ \E i, j \in Tasks :
          /\ i # j
          /\ pc[i] = "done" /\ pc[j] = "done"
          /\ result[i][1] > 0 /\ result[j][1] > 0

\* C21: two batches that are being written at the same time, hence by two
\* different workers of the pool, do not use the same target collection
\* handle.
C21_OwnConnectionPerWorker ==
    \A i, j \in Active : i # j => WriterHandle(i) # WriterHandle(j)

\* tasks whose read of the source raised
ReadFailed == {i \in Tasks : outcome[i] = "read_failed"}

\* C22: a batch whose source read fails gets an empty batch from the reader,
\* its worker returns without handing anything to the writer, and the batch
\* adds nothing to total_migrated and nothing to total_errors.
C22_ReadFailureSkipsBatch ==
    /\ \A i \in ReadFailed :
          /\ Finished(i)
          /\ batch[i] = <<>>
          /\ attempted[i] = <<>>
          /\ added[i] = 0
          /\ result[i][1] = 0
          /\ result[i][2] = 0
    /\ RunCompleted =>
          /\ total_migrated = SumOver(Tasks \ ReadFailed, 1)
          /\ total_errors = SumOver(Tasks \ ReadFailed, 2)

\* C22 witness: a completed run in which one read failed and another batch
\* was migrated
C22_Witness ==
    /\ RunCompleted
    /\ ReadFailed # {}
    /\ total_migrated > 0
    /\ \E i \in ReadFailed : batch_tasks[i].skip < Len(subscribers)

\* C23: a batch whose read failed entirely returns zero migrated and its
\* full assigned size as errors.
C23_ReadFailureCountsBatchSize ==
    \A i \in ReadFailed :
        Finished(i) => (result[i][1] = 0 /\ result[i][2] = batch_tasks[i].size)

\* C24: a batch that was read with n >= 1 documents returns migrated_count
\* between 0 and n and error_count = n - migrated_count, on every path of
\* the writer.
C24_ResultCoversReadBatch ==
    \A i \in Tasks :
        (Finished(i) /\ batch[i] # <<>>) =>
            /\ result[i][1] + result[i][2] = Len(batch[i])
            /\ result[i][1] >= 0
            /\ result[i][1] <= Len(batch[i])

\* C24 witness: a batch shorter than requested went through the fallback
\* with one document written and one rejected
C24_Witness ==
    \E i \in Tasks :
        /\ Finished(i)
        /\ outcome[i] = "fallback"
        /\ Len(batch[i]) < batch_tasks[i].size
        /\ result[i][1] > 0
        /\ result[i][2] > 0

\* the logged percentage matches the counter, and both are complete after the run
ProgressReported ==
    /\ (mpc = "collect" /\ completed_batches > 0) =>
          /\ progress * Len(batch_tasks) <= completed_batches * 100
          /\ completed_batches * 100 < (progress + 1) * Len(batch_tasks)
    /\ RunCompleted =>
          /\ completed_batches = TotalBatches(batch_size)
          /\ progress = 100

\* C25: the progress logged after a batch completion is completed_batches
\* over the number of batches, as a percentage; completed_batches grows by
\* exactly one when a batch result is collected and never otherwise, and after
\* a completed run it equals total_batches, the progress being 100.
C25_ProgressPerBatch ==
    [][/\ ProgressReported'
       /\ completed_batches' >= completed_batches
       /\ completed_batches' <= completed_batches + 1
       /\ (completed_batches' = completed_batches + 1) <=>
             (\E i \in Tasks : pc[i] = "done" /\ pc'[i] = "aggregated")]_vars

\* C25 witness: two of three batches are collected, the later one first
C25_Witness ==
    /\ mpc = "collect"
    /\ Len(batch_tasks) = 3
    /\ completed_batches = 2
    /\ progress = 66
    /\ pc[1] # "aggregated"

\* C26: with max_threads = 1 at most one batch is in progress, the batches
\* are processed in order one after the other, a delay separates two
\* consecutive batches, and the final totals are the sums of the per-batch
\* results.
C26_SingleWorkerSequential ==
    max_threads = 1 =>
        /\ Cardinality(Active) <= 1
        /\ \A i, j \in Tasks :
              (i < j /\ pc[j] \notin {"new", "queued"}) => Finished(i)
        /\ (\E j \in Tasks : j > 1 /\ pc[j] \notin {"new", "queued"}) =>
              inter_batch_delay > 0
        /\ RunCompleted =>
              /\ total_migrated = SumSeq(MigratedCounts)
              /\ total_errors = SumSeq(ErrorCounts)

\* the reader of task i returned normally
ReadReturned(i) ==
    /\ pc[i] \notin {"new", "queued"}
    /\ outcome[i] \notin {"raised", "read_failed"}

\* every batch returned by the reader is the window of the source it was asked for
ReadWindow ==
    \A i \in Tasks :
        ReadReturned(i) =>
            LET skip == batch_tasks[i].skip
                limit == batch_tasks[i].size
                rest == Len(subscribers) - skip
                n == Len(batch[i])
            IN  /\ n <= limit
                /\ n = IF rest <= 0 THEN 0 ELSE Min(limit, rest)
                /\ \A k \in 1..n :
                      /\ batch[i][k].hashMsisdn = subscribers[skip + k].hashMsisdn
                      /\ batch[i][k].payload = subscribers[skip + k].payload

\* C27: a read with offset skip and limit returns the documents at the
\* offsets skip .. skip+limit-1 of the source, in order, as far as the source
\* holds them, and no step changes the source collection.
C27_ReadWindow ==
    [][ReadWindow' /\ subscribers' = subscribers]_vars

\* C27 witness: one read ends with the source before its limit, another
\* starts past the end of the source
C27_Witness ==
    /\ \E i \in Tasks :
          /\ ReadReturned(i)
          /\ Len(batch[i]) > 0
          /\ Len(batch[i]) < batch_tasks[i].size
    /\ \E j \in Tasks :
          /\ ReadReturned(j)
          /\ batch_tasks[j].skip >= Len(subscribers)
          /\ batch[j] = <<>>

\* a running writer holds a non-empty batch, and a batch read empty was never written
WriterHasBatch ==
    \A i \in Tasks :
        /\ pc[i] \in {"bulk", "fallback"} => batch[i] # <<>>
        /\ (Finished(i) /\ batch[i] = <<>>) =>
              /\ outcome[i] \in {"empty", "read_failed", "raised"}
              /\ added[i] = 0
              /\ attempted[i] = <<>>
        /\ outcome[i] = "bulk_ok" =>
              \A k \in 1..Len(batch[i]) : BagIn(batch[i][k], hcd_collection)

\* C28: the writer of a batch runs only after the batch's read has returned
\* documents, it works on exactly those documents, it is entered at most
\* once, and a batch read empty is never written.
C28_ReadThenWriteOnce ==
    [][/\ WriterHasBatch'
       /\ \A i \in Tasks :
            /\ pc[i] \notin {"new", "queued"} => batch'[i] = batch[i]
            /\ (pc'[i] = "bulk" /\ pc[i] # "bulk") => pc[i] = "queued"
            /\ (pc'[i] = "fallback" /\ pc[i] # "fallback") => pc[i] = "bulk"]_vars

\* C28 witness: one batch was read empty and skipped, another was read and
\* written
C28_Witness ==
    /\ \E i \in Tasks : Finished(i) /\ outcome[i] = "empty"
    /\ \E j \in Tasks : Finished(j) /\ outcome[j] = "bulk_ok"

\* C29: every batch task is submitted once, in order, and its result is added
\* to the totals once; the summary is reached only when every batch was
\* submitted, completed and collected; and under fair scheduling a run that
\* the operator does not interrupt reaches the summary.
C29_AllBatchesOnceThenSummary ==
    /\ [][\A i \in Tasks :
            /\ (pc'[i] = "queued" /\ pc[i] # "queued") =>
                  (pc[i] = "new" /\ i = submitted + 1 /\ submitted' = i)
            /\ pc[i] = "aggregated" => pc'[i] = "aggregated"
            /\ (pc'[i] = "aggregated" /\ pc[i] # "aggregated") =>
                  /\ pc[i] = "done"
                  /\ total_migrated' = total_migrated + result[i][1]
                  /\ total_errors' = total_errors + result[i][2]]_vars
    /\ [](duration >= 0 =>
            /\ submitted = Len(batch_tasks)
            /\ \A i \in Tasks : pc[i] = "aggregated"
            /\ exit_code # -1)
    /\ [](exit_code = 0 => duration >= 0)
    /\ (mpc = "submit") ~> (duration >= 0)

\* C29 witness: an uninterrupted run of three batches reached its summary
C29_Witness ==
    /\ RunCompleted
    /\ ~interrupted
    /\ Len(batch_tasks) = 3
    /\ total_migrated > 0

\* the writer of task i was called and has returned
WriterReturned(i) ==
    Finished(i) /\ outcome[i] \in {"bulk_ok", "fallback", "write_failed"}

\* C30: when write_hcd_batch has returned, the number of documents it added
\* to the target collection is the migrated_count it returned.
C30_AddedEqualsMigrated ==
    \A i \in Tasks : WriterReturned(i) => added[i] = result[i][1]

====
